---- MODULE Spec2Model ----
(***************************************************************************)
(* Model of rquest's TLS connector construction (src/src/tls/mod.rs):     *)
(* BoringTlsConnector::new, BoringTlsConnector::create_connector, the     *)
(* per-handshake configuration callback and the create_connect_layer      *)
(* factory, plus the Http2Settings order model used by                    *)
(* examples/pre_configured_tls.rs.                                        *)
(*                                                                         *)
(* Option<T> is modelled as a sequence of length at most one:             *)
(* None == <<>> and Some(v) == <<v>>.                                      *)
(***************************************************************************)
EXTENDS Integers, Sequences, FiniteSets, TLC

\* ------------------------------------------------------------------ bounds
\* Number of builder options a TlsSettings may set away from its default.
MaxOptionsSet == 2
\* Number of edits made to the canonical HTTP/2 orders before they are set.
MaxEdits == 2

\* --------------------------------------------------------------- constants
\* HttpsLayerSettings::builder().session_cache_capacity(8)
SessionCacheCapacity == 8

None == <<>>
Some(v) == <<v>>
NoneOrBool == {None, Some(TRUE), Some(FALSE)}

HttpVersionPref == {"Http1", "Http2", "All"}

\* Version::TLS_1_0 .. Version::TLS_1_3
Version == {"TLS_1_0", "TLS_1_1", "TLS_1_2", "TLS_1_3"}
\* The versions tried as lower and as upper protocol bound.
MinVersions == {v \in Version : v \in {"TLS_1_0", "TLS_1_2"}}
MaxVersions == {v \in Version : v \in {"TLS_1_2", "TLS_1_3"}}

\* Compile-time features selecting the trust store.
Features == [webpki : BOOLEAN, native : BOOLEAN]

\* ----------------------------------------------------------- TlsSettings
\* The values each TlsSettings field may take.  String-encoded lists, the
\* compression algorithm, the custom store and the builder override are
\* opaque to this module, so one representative value stands for "set".
FieldValues ==
  [ tls_sni                       |-> BOOLEAN,
    http_version_pref             |-> HttpVersionPref,
    enable_ech_grease             |-> BOOLEAN,
    application_settings          |-> BOOLEAN,
    certs_verification            |-> BOOLEAN,
    min_tls_version               |-> {None} \cup {Some(v) : v \in MinVersions},
    max_tls_version               |-> {None} \cup {Some(v) : v \in MaxVersions},
    enable_ocsp_stapling          |-> BOOLEAN,
    enable_signed_cert_timestamps |-> BOOLEAN,
    session_ticket                |-> NoneOrBool,
    grease_enabled                |-> NoneOrBool,
    permute_extensions            |-> NoneOrBool,
    curves                        |-> {None, Some("curves")},
    sigalgs_list                  |-> {None, Some("sigalgs")},
    cipher_list                   |-> {None, Some("ciphers")},
    cert_compression_algorithm    |-> {None, Some("brotli")},
    ca_cert_store                 |-> {None, Some("store")},
    pre_shared_key                |-> BOOLEAN,
    connector                     |-> {None, Some("override")} ]

Fields == DOMAIN FieldValues

\* The builder's defaults.
DefaultSettings ==
  [ tls_sni                       |-> TRUE,
    http_version_pref             |-> "All",
    enable_ech_grease             |-> FALSE,
    application_settings          |-> FALSE,
    certs_verification            |-> TRUE,
    min_tls_version               |-> None,
    max_tls_version               |-> None,
    enable_ocsp_stapling          |-> FALSE,
    enable_signed_cert_timestamps |-> FALSE,
    session_ticket                |-> None,
    grease_enabled                |-> None,
    permute_extensions            |-> None,
    curves                        |-> None,
    sigalgs_list                  |-> None,
    cipher_list                   |-> None,
    cert_compression_algorithm    |-> None,
    ca_cert_store                 |-> None,
    pre_shared_key                |-> FALSE,
    connector                     |-> None ]

\* Fields whose value differs from the builder default.
OptionsSet(s) == {f \in Fields : s[f] # DefaultSettings[f]}

\* ------------------------------------------------- connect-layer factory
\* configure_alpn_protos: the ALPN protocol list of a version preference.
AlpnProtos(pref) ==
  CASE pref = "Http1" -> <<"http/1.1">>
    [] pref = "Http2" -> <<"h2">>
    [] pref = "All"   -> <<"h2", "http/1.1">>

\* A resolution that prefers the native store over the webpki bundle.
TrustStore_native_first(settings, feats) ==
  IF settings.ca_cert_store = None
  THEN IF feats.native THEN "native_store"
       ELSE IF feats.webpki THEN "webpki_store"
       ELSE "default"
  ELSE "ca_cert_store"

\* The trust-store branch taken by the factory.
TrustStore(settings, feats) ==
  IF settings.ca_cert_store = None
  THEN IF feats.webpki THEN "webpki_store"
       ELSE IF feats.native THEN "native_store"
       ELSE "default"
  ELSE "ca_cert_store"

\* NO_TICKET set whenever session_ticket is Some, whatever its value.
NoTicket_any_some(tls) == tls.session_ticket # None

\* `if let Some(false) = tls.session_ticket': whether NO_TICKET is set.
NoTicket(tls) == tls.session_ticket = Some(FALSE)

\* The settings' own preference handed to configure_alpn_protos.
AlpnArg_from_settings(settings, http_version_pref) == settings.http_version_pref

\* The preference handed to configure_alpn_protos.
AlpnArg(settings, http_version_pref) == http_version_pref

\* Layer settings whose session cache is always enabled.
HttpsLayerSettings_cache_on(tls) ==
  [ session_cache_capacity |-> SessionCacheCapacity,
    session_cache          |-> TRUE ]

\* HttpsLayerSettings::builder()...build()
HttpsLayerSettings(tls) ==
  [ session_cache_capacity |-> SessionCacheCapacity,
    session_cache          |-> tls.pre_shared_key ]

\* Calls on the builder that return a TlsResult and are followed by `?'.
FallibleSteps ==
  { "connector", "cert_verification", "alpn_protos", "min_tls_version",
    "max_tls_version", "curves", "sigalgs_list", "cipher_list",
    "cert_compression", "ca_cert_store", "webpki_store", "native_store",
    "layer" }

\* The backend's verdict on one factory run: the step it rejects, if any.
FailChoice == FallibleSteps \cup {"none"}

\* The backend's verdict on one `new': which factory run it rejects, and at
\* which step.  The first rejection ends construction, so one is enough.
Rejections ==
  {<<"none", "none">>} \cup ({"main", "ws"} \X FallibleSteps)

Opt(cond, step) == IF cond THEN <<step>> ELSE <<>>

\* The builder calls one factory run makes, in source order, when no call
\* is rejected.
FactorySteps(settings, feats) ==
  <<"connector", "cert_verification", "alpn_protos", "min_tls_version",
    "max_tls_version">>
  \o Opt(settings.enable_ocsp_stapling, "enable_ocsp_stapling")
  \o Opt(settings.enable_signed_cert_timestamps, "enable_signed_cert_timestamps")
  \o Opt(NoTicket(settings), "no_ticket")
  \o Opt(settings.grease_enabled # None, "grease_enabled")
  \o Opt(settings.permute_extensions # None, "permute_extensions")
  \o Opt(settings.curves # None, "curves")
  \o Opt(settings.sigalgs_list # None, "sigalgs_list")
  \o Opt(settings.cipher_list # None, "cipher_list")
  \o Opt(settings.cert_compression_algorithm # None, "cert_compression")
  \o Opt(TrustStore(settings, feats) # "default", TrustStore(settings, feats))
  \o <<"layer">>

\* Index of the first call the backend rejects, 0 if none: `?' returns there.
FirstFailure(steps, fail) ==
  IF \E i \in 1..Len(steps) : steps[i] = fail
  THEN CHOOSE i \in 1..Len(steps) :
         steps[i] = fail /\ \A j \in 1..(i - 1) : steps[j] # fail
  ELSE 0

\* The HttpsLayer a successful factory run returns.
BuiltLayer(settings, pref, feats, id) ==
  [ id                     |-> id,
    base                   |-> IF settings.connector # None
                               THEN "override" ELSE "tls_client",
    cert_verification      |-> settings.certs_verification,
    alpn_protos            |-> AlpnProtos(AlpnArg(settings, pref)),
    min_tls_version        |-> settings.min_tls_version,
    max_tls_version        |-> settings.max_tls_version,
    ocsp_stapling          |-> settings.enable_ocsp_stapling,
    signed_cert_timestamps |-> settings.enable_signed_cert_timestamps,
    no_ticket              |-> NoTicket(settings),
    grease_enabled         |-> settings.grease_enabled,
    permute_extensions     |-> settings.permute_extensions,
    curves                 |-> settings.curves,
    sigalgs_list           |-> settings.sigalgs_list,
    cipher_list            |-> settings.cipher_list,
    cert_compression       |-> settings.cert_compression_algorithm,
    trust_store            |-> TrustStore(settings, feats),
    session_cache_capacity |-> HttpsLayerSettings(settings).session_cache_capacity,
    session_cache          |-> HttpsLayerSettings(settings).session_cache ]

\* create_connect_layer(settings, http_version_pref): Ok(layer) or the
\* backend error of the first rejected call; `steps' are the calls made.
create_connect_layer(settings, pref, feats, fail, id) ==
  LET steps == FactorySteps(settings, feats)
      k     == FirstFailure(steps, fail)
  IN  IF k = 0
      THEN [ ok    |-> TRUE,
             pref  |-> pref,
             steps |-> steps,
             err   |-> None,
             layer |-> Some(BuiltLayer(settings, pref, feats, id)) ]
      ELSE [ ok    |-> FALSE,
             pref  |-> pref,
             steps |-> SubSeq(steps, 1, k),
             err   |-> Some(steps[k]),
             layer |-> None ]

\* ------------------------------------------------------ BoringTlsConnector
\* Identities of the HttpsLayer objects the factory allocates in one `new'.
MainLayerId == 1
WsLayerId == 2

\* A `new' whose WebSocket layer is built with the settings' own preference.
new_ws_same_pref(settings, feats, failMain, failWs) ==
  LET main == create_connect_layer(settings, settings.http_version_pref,
                                   feats, failMain, MainLayerId)
      ws   == create_connect_layer(settings, settings.http_version_pref,
                                   feats, failWs, WsLayerId)
      conn(l, w) == [ tls_sni              |-> settings.tls_sni,
                      enable_ech_grease    |-> settings.enable_ech_grease,
                      application_settings |-> settings.application_settings,
                      http_version_pref    |-> settings.http_version_pref,
                      connect_layer        |-> l,
                      ws_connect_layer     |-> w ]
  IN  IF ~main.ok
      THEN [ connector |-> None, err |-> main.err, builds |-> <<main>> ]
      ELSE IF settings.http_version_pref = "Http1"
      THEN [ connector |-> Some(conn(main.layer[1], None)),
             err |-> None, builds |-> <<main>> ]
      ELSE IF ~ws.ok
      THEN [ connector |-> None, err |-> ws.err, builds |-> <<main, ws>> ]
      ELSE [ connector |-> Some(conn(main.layer[1], ws.layer)),
             err |-> None, builds |-> <<main, ws>> ]

\* A `new' that falls back to the main layer alone when the WebSocket
\* layer cannot be built.
new_ws_fallback(settings, feats, failMain, failWs) ==
  LET main == create_connect_layer(settings, settings.http_version_pref,
                                   feats, failMain, MainLayerId)
      ws   == create_connect_layer(settings, "Http1", feats, failWs, WsLayerId)
      conn(l, w) == [ tls_sni              |-> settings.tls_sni,
                      enable_ech_grease    |-> settings.enable_ech_grease,
                      application_settings |-> settings.application_settings,
                      http_version_pref    |-> settings.http_version_pref,
                      connect_layer        |-> l,
                      ws_connect_layer     |-> w ]
  IN  IF ~main.ok
      THEN [ connector |-> None, err |-> main.err, builds |-> <<main>> ]
      ELSE IF settings.http_version_pref = "Http1"
      THEN [ connector |-> Some(conn(main.layer[1], None)),
             err |-> None, builds |-> <<main>> ]
      ELSE [ connector |-> Some(conn(main.layer[1], ws.layer)),
             err |-> None, builds |-> <<main, ws>> ]

\* The struct literal at the end of BoringTlsConnector::new.
Connector(settings, connect_layer, ws_connect_layer) ==
  [ tls_sni              |-> settings.tls_sni,
    enable_ech_grease    |-> settings.enable_ech_grease,
    application_settings |-> settings.application_settings,
    http_version_pref    |-> settings.http_version_pref,
    connect_layer        |-> connect_layer,
    ws_connect_layer     |-> ws_connect_layer ]

\* BoringTlsConnector::new(settings): Ok(connector) or the backend error.
\* `builds' are the factory runs it made, in order.
new(settings, feats, failMain, failWs) ==
  LET main == create_connect_layer(settings, settings.http_version_pref,
                                   feats, failMain, MainLayerId)
      ws   == create_connect_layer(settings, "Http1", feats, failWs, WsLayerId)
  IN  IF ~main.ok
      THEN [ connector |-> None, err |-> main.err, builds |-> <<main>> ]
      ELSE IF settings.http_version_pref = "Http1"
      THEN [ connector |-> Some(Connector(settings, main.layer[1], None)),
             err       |-> None,
             builds    |-> <<main>> ]
      ELSE IF ~ws.ok
      THEN [ connector |-> None, err |-> ws.err, builds |-> <<main, ws>> ]
      ELSE [ connector |-> Some(Connector(settings, main.layer[1], ws.layer)),
             err       |-> None,
             builds    |-> <<main, ws>> ]

\* Caller-supplied base transports (HttpConnector values).
HttpConnectors == {"http"}

\* A selection that ignores the WebSocket layer.
SelectLayer_always_main(self, ws) == self.connect_layer

\* The layer create_connector hands to HttpsConnector::with_connector_layer.
SelectLayer(self, ws) ==
  IF ws
  THEN IF self.ws_connect_layer # None
       THEN self.ws_connect_layer[1]
       ELSE self.connect_layer
  ELSE self.connect_layer

\* A create_connector whose callback keys ALPS by the is_websocket flag.
create_connector_alps_by_ws(self, http, ws) ==
  [ inner    |-> http,
    ws       |-> ws,
    layer    |-> SelectLayer(self, ws),
    callback |-> [ application_settings |-> self.application_settings,
                   enable_ech_grease    |-> self.enable_ech_grease,
                   http_version_pref    |-> IF ws THEN "Http1"
                                            ELSE self.http_version_pref,
                   tls_sni              |-> self.tls_sni ] ]

\* create_connector(&self, http, ws): the wrapped transport together with
\* the values its configuration callback captures.
create_connector(self, http, ws) ==
  [ inner    |-> http,
    ws       |-> ws,
    layer    |-> SelectLayer(self, ws),
    callback |-> [ application_settings |-> self.application_settings,
                   enable_ech_grease    |-> self.enable_ech_grease,
                   http_version_pref    |-> self.http_version_pref,
                   tls_sni              |-> self.tls_sni ] ]

\* The backend's verdict on one run of the configuration callback.
CallbackFail == {"none", "ech_grease", "application_settings"}

\* The closure passed to set_callback: the calls it makes on the handshake
\* configuration (None: call not made) and whether it returns Ok.
callback(cb, fail) ==
  IF fail = "ech_grease"
  THEN [ ech_grease           |-> Some(cb.enable_ech_grease),
         verify_hostname      |-> None,
         application_settings |-> None,
         ok                   |-> FALSE ]
  ELSE [ ech_grease           |-> Some(cb.enable_ech_grease),
         verify_hostname      |-> Some(cb.tls_sni),
         application_settings |-> IF cb.application_settings
                                  THEN Some(cb.http_version_pref)
                                  ELSE None,
         ok                   |-> ~(cb.application_settings
                                    /\ fail = "application_settings") ]

\* ----------------------------------------------------------- Http2Settings
\* SettingsOrder: the SETTINGS parameters, in the order the example sends.
SettingsOrderCanonical ==
  <<"HeaderTableSize", "EnablePush", "MaxConcurrentStreams",
    "InitialWindowSize", "MaxFrameSize", "MaxHeaderListSize",
    "EnableConnectProtocol">>
SettingsOrder == {SettingsOrderCanonical[i] : i \in DOMAIN SettingsOrderCanonical}

\* PseudoOrder: the request pseudo-headers, in the order the example sends.
PseudoOrderCanonical == <<"Method", "Scheme", "Authority", "Path">>
PseudoOrder == {PseudoOrderCanonical[i] : i \in DOMAIN PseudoOrderCanonical}

\* An order validation that compares lengths only.
IsPermutation_length_only(order, universe) ==
  Len(order) = Cardinality(universe)

\* Whether `order' lists every member of `universe' exactly once.
IsPermutation(order, universe) ==
  /\ Len(order) = Cardinality(universe)
  /\ {order[i] : i \in DOMAIN order} = universe

\* Validation of an Http2Settings at first use.
Http2Settings_validate(h) ==
  /\ IsPermutation(h.settings_order, SettingsOrder)
  /\ IsPermutation(h.headers_pseudo_order, PseudoOrder)

\* Http2Settings::builder()....build(): the orders are stored as given.
Http2Settings_build(args) ==
  [ settings_order       |-> args.settings_order,
    headers_pseudo_order |-> args.headers_pseudo_order ]

RemoveAt(seq, i) == SubSeq(seq, 1, i - 1) \o SubSeq(seq, i + 1, Len(seq))
SwapAt(seq, i) == [seq EXCEPT ![i] = seq[i + 1], ![i + 1] = seq[i]]

\* ------------------------------------------------------------------ state
VARIABLES
  orderArgs,    \* the orders the caller is about to pass to the H2 builder
  edits,        \* number of edits made to orderArgs
  http2,        \* Option<Http2Settings>
  client,       \* "none", "ok" (client built), "rejected" (build failed)
  connected,    \* whether a connection has been attempted
  features,     \* compile-time trust-store features
  settings,     \* the TlsSettings being built, then passed to `new'
  phase,        \* "building", "ready" (new returned Ok), "failed" (Err)
  connector,    \* Option<BoringTlsConnector>
  error,        \* Option<ErrorStack>: the error `new' returned
  builds,       \* the factory runs `new' made
  transports,   \* the HttpsConnectors create_connector has returned
  handshake     \* the latest run of a transport's configuration callback

tlsvars == <<features, settings, phase, connector, error, builds, transports,
             handshake>>
h2vars == <<orderArgs, edits, http2, client, connected>>
vars == <<tlsvars, h2vars>>

TlsInit ==
  /\ settings = DefaultSettings
  /\ phase = "building"
  /\ connector = None
  /\ error = None
  /\ builds = <<>>
  /\ transports = {}
  /\ handshake = None

H2Init ==
  /\ orderArgs = [ settings_order       |-> SettingsOrderCanonical,
                   headers_pseudo_order |-> PseudoOrderCanonical ]
  /\ edits = 0
  /\ http2 = None
  /\ client = "none"
  /\ connected = FALSE

Init ==
  /\ features \in Features
  /\ TlsInit
  /\ H2Init

\* One call on the settings builder.
SetOption ==
  /\ phase = "building"
  /\ Cardinality(OptionsSet(settings)) < MaxOptionsSet
  /\ \E f \in Fields : \E v \in FieldValues[f] :
       /\ settings[f] = DefaultSettings[f]
       /\ v # DefaultSettings[f]
       /\ settings' = [settings EXCEPT ![f] = v]
  /\ UNCHANGED <<features, phase, connector, error, builds, transports,
                 handshake, h2vars>>

\* BoringTlsConnector::new(settings)
New ==
  /\ phase = "building"
  /\ \E rej \in Rejections :
       LET failMain == IF rej[1] = "main" THEN rej[2] ELSE "none"
           failWs   == IF rej[1] = "ws" THEN rej[2] ELSE "none"
           r        == new(settings, features, failMain, failWs)
       IN  /\ connector' = r.connector
           /\ error' = r.err
           /\ builds' = r.builds
           /\ phase' = IF r.connector # None THEN "ready" ELSE "failed"
  /\ UNCHANGED <<features, settings, transports, handshake, h2vars>>

\* A create_connector that moves the WebSocket layer out of the connector
\* instead of cloning it.
CreateConnector_take ==
  /\ phase = "ready"
  /\ \E http \in HttpConnectors : \E ws \in BOOLEAN :
       /\ transports' = transports \cup {create_connector(connector[1], http, ws)}
       /\ connector' = IF ws
                       THEN Some([connector[1] EXCEPT !.ws_connect_layer = None])
                       ELSE connector
  /\ UNCHANGED <<features, settings, phase, error, builds, handshake, h2vars>>

\* connector.create_connector(http, ws)
CreateConnector ==
  /\ phase = "ready"
  /\ \E http \in HttpConnectors : \E ws \in BOOLEAN :
       transports' = transports \cup {create_connector(connector[1], http, ws)}
  /\ UNCHANGED <<features, settings, phase, connector, error, builds,
                 handshake, h2vars>>

\* The transport layer sets up a handshake on one of the transports and
\* invokes its configuration callback.
Handshake ==
  /\ phase = "ready"
  /\ \E t \in transports : \E fail \in CallbackFail :
       handshake' = Some([ transport |-> t,
                           conf      |-> callback(t.callback, fail) ])
  /\ UNCHANGED <<features, settings, phase, connector, error, builds,
                 transports, h2vars>>

Next == SetOption \/ New \/ CreateConnector \/ Handshake

Spec == Init /\ [][Next]_vars

\* ------------------------------------------------- Http2Settings actions
OrderFields == {"settings_order", "headers_pseudo_order"}
UniverseOf(f) == IF f = "settings_order" THEN SettingsOrder ELSE PseudoOrder

\* The caller leaves one member out of an order.
H2Remove ==
  /\ http2 = None
  /\ edits < MaxEdits
  /\ \E f \in OrderFields : \E i \in DOMAIN orderArgs[f] :
       orderArgs' = [orderArgs EXCEPT ![f] = RemoveAt(orderArgs[f], i)]
  /\ edits' = edits + 1
  /\ UNCHANGED <<tlsvars, http2, client, connected>>

\* The caller adds a member at the end of an order.
H2Append ==
  /\ http2 = None
  /\ edits < MaxEdits
  /\ \E f \in OrderFields : \E x \in UniverseOf(f) :
       orderArgs' = [orderArgs EXCEPT ![f] = Append(orderArgs[f], x)]
  /\ edits' = edits + 1
  /\ UNCHANGED <<tlsvars, http2, client, connected>>

\* The caller exchanges two neighbouring members of an order.
H2Swap ==
  /\ http2 = None
  /\ edits < MaxEdits
  /\ \E f \in OrderFields : \E i \in 1..(Len(orderArgs[f]) - 1) :
       orderArgs' = [orderArgs EXCEPT ![f] = SwapAt(orderArgs[f], i)]
  /\ edits' = edits + 1
  /\ UNCHANGED <<tlsvars, http2, client, connected>>

\* Http2Settings::builder().settings_order(..).headers_pseudo_order(..).build()
H2Build ==
  /\ http2 = None
  /\ http2' = Some(Http2Settings_build(orderArgs))
  /\ UNCHANGED <<tlsvars, orderArgs, edits, client, connected>>

\* Client::builder().use_preconfigured_tls(settings).build(): first use of
\* the Http2Settings, where a malformed order is rejected.
H2ClientBuild ==
  /\ http2 # None
  /\ client = "none"
  /\ client' = IF Http2Settings_validate(http2[1]) THEN "ok" ELSE "rejected"
  /\ UNCHANGED <<tlsvars, orderArgs, edits, http2, connected>>

\* client.get(..).send(): a connection is attempted.
H2Connect ==
  /\ client = "ok"
  /\ ~connected
  /\ connected' = TRUE
  /\ UNCHANGED <<tlsvars, orderArgs, edits, http2, client>>

InitH2 ==
  /\ features = [webpki |-> FALSE, native |-> FALSE]
  /\ TlsInit
  /\ H2Init

NextH2 == H2Remove \/ H2Append \/ H2Swap \/ H2Build \/ H2ClientBuild \/ H2Connect

SpecH2 == InitH2 /\ [][NextH2]_vars

\* ================================================================ claims
\* The successful factory runs of `new'.
OkBuilds == {i \in DOMAIN builds : builds[i].ok}

\* C1: after `new' succeeds a WebSocket connect layer exists iff the
\* preference is Http2 or All; for Http1 the main layer is the only layer
\* built.  When it exists, the WebSocket layer is a distinct layer built
\* from the same settings with preference Http1: its ALPN list is
\* ["http/1.1"] and it differs from the main layer in nothing else.
C1_WsLayerIffHttp2OrAll ==
  phase = "ready" =>
    LET c == connector[1]
    IN  /\ (c.ws_connect_layer # None)
             <=> (settings.http_version_pref \in {"Http2", "All"})
        /\ c.ws_connect_layer = None => Len(builds) = 1
        /\ c.ws_connect_layer # None =>
             LET w == c.ws_connect_layer[1]
             IN  /\ Len(builds) = 2
                 /\ builds[2].pref = "Http1"
                 /\ w.id # c.connect_layer.id
                 /\ w.alpn_protos = <<"http/1.1">>
                 /\ [w EXCEPT !.id = c.connect_layer.id,
                              !.alpn_protos = c.connect_layer.alpn_protos]
                      = c.connect_layer

C1_Witness ==
  /\ phase = "ready"
  /\ settings.http_version_pref = "Http2"
  /\ connector[1].ws_connect_layer # None
  /\ connector[1].ws_connect_layer[1].alpn_protos = <<"http/1.1">>
  /\ connector[1].connect_layer.alpn_protos = <<"h2">>

\* C2: the ALPN list of every layer the factory builds is fixed by the
\* preference argument of that factory run alone: Http1 -> ["http/1.1"],
\* Http2 -> ["h2"], All -> ["h2", "http/1.1"] in that order.
C2_AlpnFromPrefArgument ==
  \A i \in OkBuilds :
    LET b == builds[i]
    IN  /\ b.pref = "Http1" => b.layer[1].alpn_protos = <<"http/1.1">>
        /\ b.pref = "Http2" => b.layer[1].alpn_protos = <<"h2">>
        /\ b.pref = "All"   => b.layer[1].alpn_protos = <<"h2", "http/1.1">>

C2_Witness ==
  /\ Len(builds) = 2
  /\ builds[2].ok
  /\ settings.http_version_pref = "All"
  /\ builds[1].layer[1].alpn_protos = <<"h2", "http/1.1">>
  /\ builds[2].pref = "Http1"
  /\ builds[2].layer[1].alpn_protos = <<"http/1.1">>

\* C3: create_connector wraps the base transport with the WebSocket layer
\* exactly when is_websocket is true and a WebSocket layer exists, and with
\* the main layer in every other case; a transport created with
\* is_websocket = true is restricted to ALPN ["http/1.1"].
C3_LayerSelection ==
  \A t \in transports :
    LET c == connector[1]
    IN  /\ t.inner \in HttpConnectors
        /\ (t.ws /\ c.ws_connect_layer # None)
             => t.layer = c.ws_connect_layer[1]
        /\ ~(t.ws /\ c.ws_connect_layer # None)
             => t.layer = c.connect_layer
        /\ t.ws => t.layer.alpn_protos = <<"http/1.1">>

C3_Witness ==
  /\ settings.http_version_pref = "All"
  /\ \E t \in transports : t.ws /\ t.layer.id = WsLayerId
  /\ \E t \in transports : ~t.ws /\ t.layer.id = MainLayerId

\* C4 as stated: every run of the configuration callback sets ECH-GREASE to
\* the connector's enable_ech_grease flag, sets hostname verification to
\* the connector's tls_sni flag, and registers ALPS iff application_settings
\* is true, keyed by the connector's http_version_pref.  A run whose
\* ECH-GREASE call is rejected returns at the `?' before the other two
\* calls, so this fails.
C4_Original ==
  handshake # None =>
    LET c    == connector[1]
        conf == handshake[1].conf
    IN  /\ conf.ech_grease = Some(c.enable_ech_grease)
        /\ conf.verify_hostname = Some(c.tls_sni)
        /\ (conf.application_settings # None) <=> c.application_settings
        /\ conf.application_settings # None
             => conf.application_settings = Some(c.http_version_pref)

\* C4 (amended): the configuration callback first sets ECH-GREASE to the
\* connector's enable_ech_grease flag; unless the backend rejects that call
\* (the callback then returns Err having made no other call) it sets
\* hostname verification to the connector's tls_sni flag and registers ALPS
\* iff application_settings is true.  ALPS is keyed by the connector's own
\* http_version_pref whatever the is_websocket flag of the call was, and a
\* callback that returns Ok has made all of these calls.
C4_CallbackValues ==
  handshake # None =>
    LET c    == connector[1]
        conf == handshake[1].conf
    IN  /\ handshake[1].transport \in transports
        /\ conf.ech_grease = Some(c.enable_ech_grease)
        /\ conf.verify_hostname \in {None, Some(c.tls_sni)}
        /\ conf.verify_hostname = None
             => (~conf.ok /\ conf.application_settings = None)
        /\ conf.verify_hostname # None
             => ((conf.application_settings # None) <=> c.application_settings)
        /\ conf.application_settings # None
             => conf.application_settings = Some(c.http_version_pref)
        /\ conf.ok => conf.verify_hostname = Some(c.tls_sni)

C4_Witness ==
  /\ handshake # None
  /\ handshake[1].transport.ws
  /\ handshake[1].conf.ok
  /\ connector[1].http_version_pref = "All"
  /\ connector[1].application_settings
  /\ handshake[1].conf.application_settings = Some("All")
  /\ \E t \in transports : ~t.ws

\* C5: every connect layer the factory produces, main and WebSocket layer
\* alike, has session-cache capacity 8 and has its session cache enabled
\* iff settings.pre_shared_key is true.
C5_SessionCache ==
  /\ \A i \in OkBuilds :
       /\ builds[i].layer[1].session_cache_capacity = 8
       /\ builds[i].layer[1].session_cache = settings.pre_shared_key
  /\ \A t \in transports :
       /\ t.layer.session_cache_capacity = 8
       /\ t.layer.session_cache = settings.pre_shared_key

C5_Witness ==
  /\ phase = "ready"
  /\ settings.pre_shared_key
  /\ connector[1].connect_layer.session_cache
  /\ connector[1].ws_connect_layer # None
  /\ connector[1].ws_connect_layer[1].session_cache
  /\ connector[1].ws_connect_layer[1].session_cache_capacity = 8

TrustSteps == {"ca_cert_store", "webpki_store", "native_store"}

\* C6: the factory resolves the trust store from exactly one source by
\* fixed precedence: the custom ca_cert_store if supplied, else the webpki
\* bundle if compiled in (also when the native store is compiled in too),
\* else the native store if compiled in, else the default builder
\* unmodified.
C6_TrustStorePrecedence ==
  \A i \in OkBuilds :
    LET b      == builds[i]
        called == {b.steps[k] : k \in DOMAIN b.steps} \cap TrustSteps
        custom == settings.ca_cert_store # None
    IN  /\ custom => called = {"ca_cert_store"}
        /\ (~custom /\ features.webpki) => called = {"webpki_store"}
        /\ (~custom /\ ~features.webpki /\ features.native)
             => called = {"native_store"}
        /\ (~custom /\ ~features.webpki /\ ~features.native) => called = {}
        /\ called = IF b.layer[1].trust_store = "default"
                    THEN {} ELSE {b.layer[1].trust_store}

C6_Witness ==
  /\ phase = "ready"
  /\ features.webpki /\ features.native
  /\ settings.ca_cert_store = None
  /\ connector[1].connect_layer.trust_store = "webpki_store"

\* C7: connector construction is all-or-nothing.  When a fallible step of
\* either factory run is rejected, `new' returns that error and no
\* connector, the failing run stops at the rejected step, and no later run
\* is made; a connector exists only if every run it needed succeeded.
C7_AllOrNothing ==
  /\ phase = "failed" =>
       /\ connector = None
       /\ error # None
       /\ builds # <<>>
       /\ LET b == builds[Len(builds)]
          IN  /\ ~b.ok
              /\ b.layer = None
              /\ b.err = error
              /\ b.steps[Len(b.steps)] = error[1]
              /\ \A k \in 1..(Len(b.steps) - 1) : b.steps[k] # error[1]
              /\ error[1] # "layer" =>
                   \A k \in DOMAIN b.steps : b.steps[k] # "layer"
       /\ \A i \in 1..(Len(builds) - 1) : builds[i].ok
  /\ (\E i \in DOMAIN builds : ~builds[i].ok) => connector = None
  /\ phase = "ready" =>
       /\ connector # None
       /\ error = None
       /\ Len(builds) = IF settings.http_version_pref = "Http1" THEN 1 ELSE 2

C7_Witness ==
  /\ phase = "failed"
  /\ Len(builds) = 2
  /\ builds[1].ok
  /\ ~builds[2].ok
  /\ error = Some("cipher_list")
  /\ connector = None

StepsOf(b) == {b.steps[k] : k \in DOMAIN b.steps}

\* C9: OCSP stapling, SCT requesting, session-ticket disabling, GREASE and
\* extension permutation are applied to the builder only if requested:
\* OCSP and SCT only when their flag is true, NO_TICKET only when
\* session_ticket is Some(false), GREASE and permutation only when the
\* option is Some, and then with the given value.
C9_OptionalToggles ==
  \A i \in OkBuilds :
    LET b == builds[i]
        l == b.layer[1]
    IN  /\ ("enable_ocsp_stapling" \in StepsOf(b)) <=> settings.enable_ocsp_stapling
        /\ l.ocsp_stapling <=> settings.enable_ocsp_stapling
        /\ ("enable_signed_cert_timestamps" \in StepsOf(b))
             <=> settings.enable_signed_cert_timestamps
        /\ l.signed_cert_timestamps <=> settings.enable_signed_cert_timestamps
        /\ ("no_ticket" \in StepsOf(b)) <=> (settings.session_ticket = Some(FALSE))
        /\ l.no_ticket <=> (settings.session_ticket = Some(FALSE))
        /\ ("grease_enabled" \in StepsOf(b)) <=> (settings.grease_enabled # None)
        /\ l.grease_enabled = settings.grease_enabled
        /\ ("permute_extensions" \in StepsOf(b))
             <=> (settings.permute_extensions # None)
        /\ l.permute_extensions = settings.permute_extensions

C9_Witness ==
  /\ phase = "ready"
  /\ settings.session_ticket = Some(TRUE)
  /\ settings.grease_enabled = Some(FALSE)
  /\ ~connector[1].connect_layer.no_ticket
  /\ connector[1].connect_layer.grease_enabled = Some(FALSE)
  /\ connector[1].connect_layer.permute_extensions = None

\* C10: create_connector never changes the connector and never re-runs the
\* factory, and any two transports created with the same is_websocket value
\* share the same layer and the same callback values.
C10_SameConfiguration ==
  \A t1 \in transports : \A t2 \in transports :
    /\ t1.ws = t2.ws => (t1.layer = t2.layer /\ t1.callback = t2.callback)
    /\ t1.callback = t2.callback
    /\ t1.layer \in {connector[1].connect_layer}
                      \cup {connector[1].ws_connect_layer[k] :
                              k \in DOMAIN connector[1].ws_connect_layer}
    /\ t1.callback = [ application_settings |-> settings.application_settings,
                       enable_ech_grease    |-> settings.enable_ech_grease,
                       http_version_pref    |-> settings.http_version_pref,
                       tls_sni              |-> settings.tls_sni ]

C10_ConnectorImmutable ==
  /\ []C10_SameConfiguration
  /\ [][phase = "ready" =>
          /\ connector' = connector
          /\ builds' = builds
          /\ settings' = settings
          /\ phase' = phase]_vars

C10_Witness ==
  /\ Cardinality(transports) = 2
  /\ handshake # None
  /\ connector[1].ws_connect_layer # None

\* An order with a member duplicated or a member missing.
Malformed(order, universe) ==
  \/ \E i \in DOMAIN order : \E j \in DOMAIN order : i # j /\ order[i] = order[j]
  \/ \E u \in universe : \A i \in DOMAIN order : order[i] # u

\* C8: an Http2Settings whose settings_order or headers_pseudo_order has a
\* member duplicated or missing is rejected at first use, before any
\* connection is attempted, and the order it holds is the one it was given
\* (never repaired or completed).
C8_MalformedOrderRejected ==
  http2 # None =>
    LET bad == \/ Malformed(http2[1].settings_order, SettingsOrder)
               \/ Malformed(http2[1].headers_pseudo_order, PseudoOrder)
    IN  /\ http2[1].settings_order = orderArgs.settings_order
        /\ http2[1].headers_pseudo_order = orderArgs.headers_pseudo_order
        /\ (bad /\ client # "none") => client = "rejected"
        /\ bad => ~connected
        /\ client = "rejected" => ~connected

C8_Witness ==
  /\ http2 # None
  /\ Len(http2[1].settings_order) = 6
  /\ \A i \in DOMAIN http2[1].settings_order :
       http2[1].settings_order[i] # "MaxFrameSize"
  /\ client = "rejected"
  /\ ~connected

====
